---- MODULE Spec2Model ----
(***************************************************************************)
(* Model of patchbot.py: the scheduler of main(), the staged pipeline of   *)
(* test_a_ticket() with its plugin runner, capture session (Tee) and       *)
(* retrying reporter, the baseline self-test of ticket 0 and the           *)
(* time-of-day window.                                                     *)
(*                                                                         *)
(* External operations (tracker query, scrape, apply, build, plugins,      *)
(* test suite, report post, stdin) are opaque: each is a step whose        *)
(* outcome is drawn from the outcomes the code distinguishes.  A failing   *)
(* stage or plugin raises an Exception; a failing HTTP exchange raises     *)
(* urllib2.HTTPError, the one exception the handlers of test_a_ticket and  *)
(* main name.                                                              *)
(*                                                                         *)
(* Spec is the program run by main().  Calls applies rate_ticket,          *)
(* get_ticket, compare_machines and check_time_of_day once to arguments    *)
(* drawn from bounded sets and records the value returned.                 *)
(***************************************************************************)
EXTENDS Integers, Sequences, FiniteSets, TLC

VARIABLES
    skip_base,        \* options.skip_base (line 422)
    tickets,          \* main's explicit ticket queue (lines 426-431); <<>> when none
    count,            \* main's cycle count (lines 428, 431)
    pc,               \* main's position
    i,                \* number of completed cycles of the loop at line 461
    conf,             \* the global conf as last (re)loaded by get_conf
    now,              \* wall clock (minutes since midnight) read by check_time_of_day
    clean,            \* main's `clean`: reports of ticket 0 returned by lookup_ticket
    res,              \* main's `res`: status returned by the baseline run
    ans,              \* main's `ans`: the operator's last answer, lowered and stripped
    tpc,              \* position inside test_a_ticket ("none" outside)
    ticket,           \* test_a_ticket's chosen ticket id
    state,            \* test_a_ticket's `state`
    plugins_results,  \* test_a_ticket's `plugins_results`
    attempt,          \* index of the `for _ in range(5)` loop at line 302
    elapsed,          \* wall-clock ticks spent inside the `with Tee(...)` block
    ret,              \* what the last call of test_a_ticket returned or raised
    trace,            \* external operations performed in the current cycle / baseline
    call,             \* the function applied last and its arguments, outside a run of main
    out               \* the value it returned

vars == <<skip_base, tickets, count, pc, i, conf, now, clean, res, ans,
          tpc, ticket, state, plugins_results, attempt, elapsed, ret, trace,
          call, out>>

mainVars == <<skip_base, tickets, count, clean, ans, call, out>>
runVars  == <<ticket, state, plugins_results, attempt, elapsed>>

----------------------------------------------------------------------------
(* Bounds of the model *)

MaxCount == 2         \* largest --count / longest explicit queue, with --skip-base
MaxBaseCount == 1     \* the same, when the baseline is not skipped
MaxPlugins == 2       \* longest configured plugin list
TimeoutTicks == 1     \* conf['timeout'], in clock ticks
MaxStageTicks == 1    \* longest duration of one external operation, in ticks
MaxReports == 1       \* most prior reports on a ticket
MaxListed == 2        \* longest list of tickets the tracker answers with
MaxDepth == 5         \* largest conf['machine_match']

----------------------------------------------------------------------------
(* Values *)

NoTicket == 0 - 1      \* Python None as a ticket / candidate
NoStatus == "None"     \* Python None as a returned status
NoRun == "norun"       \* test_a_ticket was not called in this cycle
HTTPError == "HTTPError"   \* urllib2.HTTPError (lines 308, 473)

\* http_post_file.post_multipart: what a post that fails raises.
post_multipart_error == HTTPError
Unset == "unset"       \* the local `state` before line 250 binds it
NoCall == [fn |-> "none", args |-> <<>>]

TicketIds == {100, 200}

\* Line 205-213: the status table.
status == [started       |-> "ApplyFailed",
           applied       |-> "BuildFailed",
           built         |-> "TestsFailed",
           tested        |-> "TestsPassed",
           failed_plugin |-> "PluginFailed"]

\* Lines 375-377: the default plugin identifiers, in order.
PluginNames == <<"plugins.commit_messages", "plugins.coverage",
                 "plugins.trailing_whitespace">>

PluginLists == {SubSeq(PluginNames, 1, n) : n \in 0..MaxPlugins}

\* Lines 334-340: the machine signature of this host and of two others:
\* one that agrees with it on the compared prefix only, one that does not.
ThisMachine  == <<"Ubuntu", "10.04", "x86_64", "2.6.32", "hostA">>
TwinMachine  == <<"Ubuntu", "10.04", "x86_64", "2.6.32", "hostB">>
OtherMachine == <<"Darwin", "i386", "10.8.0", "hostC">>
Machines == {ThisMachine, TwinMachine, OtherMachine}

\* Line 382: the default prefix depth.
machine_match == 3

Base == "5.0"
Bases == {"5.0", "4.8"}

\* time_of_day strings, as the list of their comma-separated intervals; an
\* interval is <<start, end>> ("start-end") or <<start>> ("start").
Windows == { << <<22, 2>> >>, << <<9>>, <<13, 17>> >> }

Clock == {60 * 12, 60 * 23}

\* Line 455: answers as typed, before .lower().strip().
Answers == { <<>>, <<"N", "o">>, <<"Y">>, <<"m", "a", "y", "b", "e">> }

\* default_trusted_authors(server), and an author outside it.
TrustedAuthors == {"alice", "bob"}
Authors == TrustedAuthors \cup {"mallory"}

\* Lines 385-390: the default bonuses, and a conf file that adds its own.
default_bonus ==
    [k \in {"needs_review", "positive_review", "blocker", "critical"} |->
        CASE k = "needs_review" -> 1000 [] k = "positive_review" -> 500
          [] k = "blocker" -> 100 [] k = "critical" -> 50]

FileBonus == [k \in {"alice", "mallory", "algebra", "200"} |->
                CASE k = "alice" -> 20 [] k = "mallory" -> 40
                  [] k = "algebra" -> 3 [] k = "200" -> 7]

Bonuses == {default_bonus, FileBonus @@ default_bonus}

Confs == [time_of_day : Windows, plugins : PluginLists, timeout : {TimeoutTicks},
          machine : {ThisMachine}, machine_match : {machine_match},
          base : {Base}, trusted_authors : {TrustedAuthors}, bonus : {default_bonus}]

Ev(op, st, log, plugins, ok) ==
    [op |-> op, status |-> st, log |-> log, plugins |-> plugins, ok |-> ok,
     all |-> <<>>]

Op(op, ok) == Ev(op, "", FALSE, <<>>, ok)

----------------------------------------------------------------------------
(* Pure functions *)

Min(a, b) == IF a < b THEN a ELSE b

\* Lines 343-349: "start-end" gives (start, end); "start" gives (start, start+1).
parse_interval(ss) ==
    IF Len(ss) = 2 THEN <<ss[1], ss[2]>> ELSE <<ss[1], ss[1] + 1>>

\* Line 350.
parse_time_of_day(s) == [k \in 1..Len(s) |-> parse_interval(s[k])]

\* Mutant: an interval is never taken to wrap past midnight.
check_time_of_dayM(hours, t) ==
    \E k \in 1..Len(hours) :
        /\ parse_time_of_day(hours)[k][1] * 60 <= t
        /\ t <= parse_time_of_day(hours)[k][2] * 60

\* Lines 352-362, with hour = t / 60 (t in minutes).
check_time_of_day(hours, t) ==
    \E k \in 1..Len(hours) :
        LET start == parse_time_of_day(hours)[k][1]
            end   == parse_time_of_day(hours)[k][2]
        IN  IF start < end
            THEN start * 60 <= t /\ t <= end * 60
            ELSE t <= end * 60 \/ start * 60 <= t

\* Python None as conf['machine_match'] (line 74).
NoDepth == 0 - 1

\* A report made by an old client carries its machine as a dict.
DictMachine == <<"{dict}">>
isinstance_dict(m) == m = DictMachine

\* Mutant: no flag is appended when the lengths differ.
compare_machinesM(a, b, mm) ==
    IF isinstance_dict(a) \/ isinstance_dict(b) THEN <<TRUE>>
    ELSE
    LET aa == IF mm = NoDepth THEN a ELSE SubSeq(a, 1, Min(mm, Len(a)))
        bb == IF mm = NoDepth THEN b ELSE SubSeq(b, 1, Min(mm, Len(b)))
    IN  [k \in 1..Min(Len(aa), Len(bb)) |-> aa[k] # bb[k]]

\* Lines 74-85: a dict on either side gives (1,); otherwise both lists are
\* cut to the prefix first, so the lengths compared at line 83 are those of
\* the prefixes.
compare_machines(a, b, mm) ==
    IF isinstance_dict(a) \/ isinstance_dict(b) THEN <<TRUE>>
    ELSE
    LET aa == IF mm = NoDepth THEN a ELSE SubSeq(a, 1, Min(mm, Len(a)))
        bb == IF mm = NoDepth THEN b ELSE SubSeq(b, 1, Min(mm, Len(b)))
        diff == [k \in 1..Min(Len(aa), Len(bb)) |-> aa[k] # bb[k]]
    IN  IF Len(aa) # Len(bb) THEN Append(diff, TRUE) ELSE diff

\* util.current_reports: the reports of a ticket made at the given base.
current_reports(reports, base) == {r \in reports : r.base = base}

\* Mutant: the machines are compared on the machine_match prefix only.
goodM(report) ==
    /\ \A k \in DOMAIN compare_machines(report.machine, conf.machine, conf.machine_match) :
          ~compare_machines(report.machine, conf.machine, conf.machine_match)[k]
    /\ report.status = "TestsPassed"

\* Lines 447-448.
good(report) == report.machine = conf.machine /\ report.status = "TestsPassed"

\* Line 455: .lower() on the characters the answers use.
lower(a) ==
    [k \in 1..Len(a) |-> IF a[k] = "N" THEN "n" ELSE IF a[k] = "Y" THEN "y" ELSE a[k]]

----------------------------------------------------------------------------
(* Tickets and their rating *)

Range(s) == {s[k] : k \in DOMAIN s}

\* A ticket record of the tracker, with the fields rate_ticket reads.  A
\* dependency is a ticket number or a dotted version string; `component` is
\* Absent when the record has no such key; `reports` holds the prior reports.
Absent == "<absent>"

Ticket(id, spkgs, patches, depends_on, authors, participants, component, st, priority, retry, reports) ==
    [id |-> id, spkgs |-> spkgs, patches |-> patches, depends_on |-> depends_on,
     authors |-> authors, participants |-> participants, component |-> component,
     status |-> st, priority |-> priority, retry |-> retry, reports |-> reports]

DepTicket(n)  == [dotted |-> FALSE, name |-> "", id |-> n]
DepVersion(v) == [dotted |-> TRUE,  name |-> v,  id |-> 0]

\* Version strings as the tuples util.compare_version compares.
VersionOf == [v \in {"4.8", "5.0", "5.1"} |->
                CASE v = "4.8" -> <<4, 8>> [] v = "5.0" -> <<5, 0>> [] v = "5.1" -> <<5, 1>>]

\* Lexicographic order on sequences of integers, a proper prefix being smaller.
LexLess(x, y) ==
    \/ \E k \in 1..Min(Len(x), Len(y)) :
          /\ x[k] < y[k]
          /\ \A j \in 1..(k - 1) : x[j] = y[j]
    \/ /\ Len(x) < Len(y)
       /\ \A j \in 1..Len(x) : x[j] = y[j]

\* util.compare_version: negative, zero or positive.
compare_version(a, b) ==
    IF LexLess(VersionOf[a], VersionOf[b]) THEN 0 - 1
    ELSE IF LexLess(VersionOf[b], VersionOf[a]) THEN 1 ELSE 0

\* str(ticket['id']) (line 108).
str(n) == CASE n = 100 -> "100" [] n = 200 -> "200" [] n = 300 -> "300" [] OTHER -> "?"

\* dict.get(key, 0) (lines 100-108).
get(bonus, key) == IF key \in DOMAIN bonus THEN bonus[key] ELSE 0

\* Lines 100, 102: the bonuses of a list of names, one term per occurrence.
RECURSIVE bonus_sum(_, _)
bonus_sum(bonus, names) ==
    IF names = <<>> THEN 0
    ELSE get(bonus, Head(names)) + bonus_sum(bonus, Tail(names))

\* A redundancy value of Python 2: a tuple ((100,), or the (1,) of line 77)
\* or a list of booleans (line 82), the booleans read as 0 and 1.
PyTuple(v) == [tuple |-> TRUE, v |-> v]
PyList(v)  == [tuple |-> FALSE, v |-> v]
int(b) == IF b THEN 1 ELSE 0

\* Line 110.
Sentinel == PyTuple(<<100>>)

\* Python 2 `<` on these values: a list is smaller than any tuple (the
\* type names are compared), two of a kind compare lexicographically.
PyLess(x, y) ==
    IF x.tuple # y.tuple THEN ~x.tuple ELSE LexLess(x.v, y.v)

\* Line 114, the value min() is given for one report.
report_redundancy(report, cf) ==
    LET d == compare_machines(report.machine, cf.machine, cf.machine_match)
        v == [k \in 1..Len(d) |-> int(d[k])]
    IN  IF isinstance_dict(report.machine) \/ isinstance_dict(cf.machine)
        THEN PyTuple(v) ELSE PyList(v)

\* Lines 110-114: the smallest value among (100,) and those of the reports
\* made at this base; a ticket flagged retry keeps (100,).
redundancy_of(t, cf) ==
    IF t.retry THEN Sentinel
    ELSE LET vs == {Sentinel} \cup
                   {report_redundancy(r, cf) : r \in current_reports(t.reports, cf.base)}
         IN  CHOOSE m \in vs : \A o \in vs : ~PyLess(o, m)

\* Mutant: the participants are not counted.
rating_ofM(t, cf) ==
    bonus_sum(cf.bonus, t.authors)
    + bonus_sum(cf.bonus, t.participants)
    + (IF t.component # Absent THEN get(cf.bonus, t.component) ELSE 0)
    + get(cf.bonus, t.status)
    + get(cf.bonus, t.priority)
    + get(cf.bonus, str(t.id))

\* Lines 101-108.
rating_of(t, cf) ==
    bonus_sum(cf.bonus, t.authors)
    + bonus_sum(cf.bonus, t.participants)
    + Len(t.participants)
    + (IF t.component # Absent THEN get(cf.bonus, t.component) ELSE 0)
    + get(cf.bonus, t.status)
    + get(cf.bonus, t.priority)
    + get(cf.bonus, str(t.id))

\* rate_ticket returning None.
Skip == [skip |-> TRUE, redundancy |-> PyTuple(<<>>), rating |-> 0, negid |-> 0]

Score(redundancy, rating, negid) ==
    [skip |-> FALSE, redundancy |-> redundancy, rating |-> rating, negid |-> negid]

\* Mutant: the system packages of the ticket are not looked at.
unfitM(t, cf) ==
    \/ t.patches = <<>>
    \/ \E k \in DOMAIN t.depends_on :
          /\ t.depends_on[k].dotted
          /\ compare_version(cf.base, t.depends_on[k].name) < 0
    \/ \E k \in DOMAIN t.authors : t.authors[k] \notin cf.trusted_authors

\* Lines 88-99: the early returns of rate_ticket.
unfit(t, cf) ==
    \/ t.spkgs # <<>>
    \/ t.patches = <<>>
    \/ \E k \in DOMAIN t.depends_on :
          /\ t.depends_on[k].dotted
          /\ compare_version(cf.base, t.depends_on[k].name) < 0
    \/ \E k \in DOMAIN t.authors : t.authors[k] \notin cf.trusted_authors

\* Lines 87-118.
rate_ticket(t, cf) ==
    IF unfit(t, cf) THEN Skip
    ELSE LET redundancy == redundancy_of(t, cf)
         IN  IF redundancy.v[Len(redundancy.v)] = 0 THEN Skip
             ELSE Score(redundancy, rating_of(t, cf), 0 - t.id)

\* Lines 32-37.
filter_on_authors(ts, authors) ==
    SelectSeq(ts, LAMBDA t : Range(t.authors) \subseteq authors)

\* Python 2 `<` on the (score, ticket) pairs of line 59, for tickets of
\* different ids.
PairLess(x, y) ==
    \/ PyLess(x.score.redundancy, y.score.redundancy)
    \/ /\ x.score.redundancy = y.score.redundancy
       /\ \/ x.score.rating < y.score.rating
          \/ /\ x.score.rating = y.score.rating
             /\ x.score.negid < y.score.negid

\* list.sort() (line 60), by insertion.
RECURSIVE insort(_, _)
insort(x, s) ==
    IF s = <<>> THEN <<x>>
    ELSE IF PairLess(x, Head(s)) THEN <<x>> \o s
    ELSE <<Head(s)>> \o insort(x, Tail(s))

RECURSIVE sort(_)
sort(s) == IF s = <<>> THEN <<>> ELSE insort(Head(s), sort(Tail(s)))

\* Lines 57-59: the tickets rated, those rated None dropped.
rated(ts, cf) ==
    SelectSeq([k \in 1..Len(ts) |-> [score |-> rate_ticket(ts[k], cf), ticket |-> ts[k]]],
              LAMBDA x : ~x.score.skip)

\* What get_ticket returns: None, or a value (a pair, or the list of pairs).
None == [none |-> TRUE, val |-> <<>>]
Some(x) == [none |-> FALSE, val |-> x]

\* Mutant: the tickets are neither filtered nor rated.
get_ticketM(resp, cf, return_all) ==
    IF ~resp.ok THEN None
    ELSE LET all == [k \in 1..Len(resp.all) |->
                        [score |-> Score(Sentinel, 0, 0 - resp.all[k].id),
                         ticket |-> resp.all[k]]]
         IN  IF return_all THEN Some(all)
             ELSE IF all # <<>> THEN Some(all[Len(all)]) ELSE None

\* Mutant: the first pair of the sorted list is returned.
get_ticketM1(resp, cf, return_all) ==
    IF ~resp.ok THEN None
    ELSE LET all == sort(rated(filter_on_authors(resp.all, cf.trusted_authors), cf))
         IN  IF return_all THEN Some(all)
             ELSE IF all # <<>> THEN Some(all[1]) ELSE None

\* Lines 46-64: the tracker's answer is unusable (the bare except returns
\* None) or a list of ticket records.
get_ticket(resp, cf, return_all) ==
    IF ~resp.ok THEN None
    ELSE LET all == sort(rated(filter_on_authors(resp.all, cf.trusted_authors), cf))
         IN  IF return_all THEN Some(all)
             ELSE IF all # <<>> THEN Some(all[Len(all)]) ELSE None


\* A ticket ready to be tested, and one waiting for a system package.
PlainTicket(id) ==
    Ticket(id, <<>>, <<"trac.patch">>, <<>>, <<"alice">>, <<"alice">>, Absent,
           "needs_review", "major", FALSE, {})

SpkgTicket(id) ==
    Ticket(id, <<"pkg.spkg">>, <<"trac.patch">>, <<>>, <<"alice">>, <<"alice">>, Absent,
           "needs_review", "major", FALSE, {})

\* The query of line 51 and the list it obtained.
Query(resp) == [Op("query", resp.ok) EXCEPT !.all = resp.all]

\* What the tracker answers to the query of line 51 in a cycle of the loop.
TrackerResponses ==
    {[ok |-> FALSE, all |-> <<>>], [ok |-> TRUE, all |-> <<>>],
     [ok |-> TRUE, all |-> <<SpkgTicket(200)>>],
     [ok |-> TRUE, all |-> <<PlainTicket(200), SpkgTicket(300), PlainTicket(100)>>]}

\* Mutant: the plugin results are left out of the payload.
report_ticketM1(st, plugins, ok) == Ev("post", st, st # "Pending", <<>>, ok)

\* Mutant: the log is attached whatever the status.
report_ticketM(st, plugins, ok) == Ev("post", st, TRUE, plugins, ok)

\* Lines 120-138: the payload posted for a report; the log is attached for
\* every status but Pending.
report_ticket(st, plugins, ok) == Ev("post", st, st # "Pending", plugins, ok)

\* Mutant: one attempt more.
ReportAttemptsM == 5 + 1

\* Line 302.
ReportAttempts == 5

\* Line 294.
all_passed(results) == \A k \in 1..Len(results) : results[k][2]

----------------------------------------------------------------------------
(* Control flow helpers *)

\* Mutant: a stage's failure is ignored and the pipeline goes on.
AfterStageM(ok, next) == next

\* Lines 245-300: a stage operation that fails raises; the exception leaves
\* the `with` block (Tee.__exit__) and is caught at line 299.
AfterStage(ok, next) == IF ok THEN next ELSE "tee_exit"

\* Mutant: a plugin's exception leaves the pipeline like a stage's.
AfterPluginM(raised) == IF raised THEN "tee_exit" ELSE "plugins"

\* Lines 271-281: an exception of a plugin is caught at line 275; the loop
\* over conf['plugins'] goes on.
AfterPlugin(raised) == "plugins"

\* Lines 273-277.
plugin_passed(raised) == ~raised

\* Mutant: the plugins' outcomes are not looked at.
final_stateM(results) == "tested"

\* Lines 292-295.
final_state(results) == IF all_passed(results) THEN "tested" ELSE "failed_plugin"

\* Mutant: the loop has no handler.
CaughtM(p, exc) == FALSE

\* Lines 461-475 and 445-459: an urllib2.HTTPError raised at main's position
\* p is caught only inside the loop's try; line 450 is outside any try.
Caught(p, exc) == p = "m_run" /\ exc = HTTPError

\* Line 308: the handler around one attempt to post the final report.
Retried(exc) == exc = HTTPError

\* Mutant: the window is not consulted.
RunsTicketM(inWindow) == TRUE

\* Line 468: the cycle runs test_a_ticket iff the clock is inside the window.
RunsTicket(inWindow) == inWindow

\* Lines 451, 456-459: main's position after the baseline returned r, and
\* after the operator's answer a.
AfterBaseline(r) == IF r # "TestsPassed" THEN "m_prompt" ELSE "m_top"

AfterAnswer(a) ==
    IF a = <<>> \/ a[1] = "n" THEN "m_exit"
    ELSE IF a[1] = "y" THEN "m_top" ELSE "m_prompt"

\* The locals of test_a_ticket die with the call.
Leave ==
    /\ tpc' = "none"
    /\ ticket' = NoTicket
    /\ state' = Unset
    /\ plugins_results' = <<>>
    /\ attempt' = 0
    /\ elapsed' = 0

\* test_a_ticket returns r to main, having performed the operations tr.
Return(r, tr) ==
    /\ Leave
    /\ trace' = tr
    /\ ret' = r
    /\ IF pc = "m_base"
       THEN /\ res' = r
            /\ pc' = AfterBaseline(r)
       ELSE /\ res' = res
            /\ pc' = "m_next"

\* The exception exc propagates to main, after the operations tr: caught
\* inside the loop (lines 473-475: sleep, next cycle), fatal elsewhere.
Raise(exc, tr) ==
    /\ Leave
    /\ res' = res
    /\ ret' = exc
    /\ IF Caught(pc, exc)
       THEN /\ trace' = Append(tr, Op("sleep", TRUE))
            /\ pc' = "m_next"
       ELSE /\ trace' = tr
            /\ pc' = "m_crash"

----------------------------------------------------------------------------
(* main *)

\* Reports on ticket 0 as the server may hold them.
BaselineReports ==
    {[machine |-> ThisMachine,  status |-> "TestsPassed", base |-> "5.0"],
     [machine |-> TwinMachine,  status |-> "TestsPassed", base |-> "5.0"],
     [machine |-> ThisMachine,  status |-> "TestsFailed", base |-> "5.0"],
     [machine |-> ThisMachine,  status |-> "TestsPassed", base |-> "4.8"]}

ReportSets == {rs \in SUBSET BaselineReports : Cardinality(rs) <= MaxReports}

Queues(max) ==
    {<<>>} \cup {q \in UNION {[1..n -> TicketIds] : n \in 1..max} :
                    \A a, b \in 1..Len(q) : a # b => q[a] # q[b]}

Cycles(skip) == IF skip THEN MaxCount ELSE MaxBaseCount

Init ==
    /\ skip_base \in BOOLEAN
    /\ tickets \in Queues(Cycles(skip_base))
    /\ count \in IF tickets # <<>> THEN {Len(tickets)} ELSE 1..Cycles(skip_base)
    /\ conf \in Confs
    /\ pc = "m_lookup"
    /\ i = 0
    /\ now = 0
    /\ clean = {}
    /\ res = NoStatus
    /\ ans = <<>>
    /\ tpc = "none"
    /\ ticket = NoTicket
    /\ state = Unset
    /\ plugins_results = <<>>
    /\ attempt = 0
    /\ elapsed = 0
    /\ ret = NoRun
    /\ trace = <<>>
    /\ call = NoCall
    /\ out = <<>>

\* Line 445: --skip-base.
SkipBaseline ==
    /\ pc = "m_lookup" /\ skip_base
    /\ pc' = "m_top"
    /\ UNCHANGED <<mainVars, runVars, i, conf, now, res, tpc, ret, trace>>

\* Line 446: lookup_ticket raises; nothing catches it.
LookupFails ==
    /\ pc = "m_lookup" /\ ~skip_base
    /\ trace' = Append(trace, Op("lookup", FALSE))
    /\ pc' = "m_crash"
    /\ UNCHANGED <<mainVars, runVars, i, conf, now, res, tpc, ret>>

\* Lines 446-450: the baseline is run unless a current report is good.
Lookup ==
    /\ pc = "m_lookup" /\ ~skip_base
    /\ \E rs \in ReportSets :
        /\ clean' = rs
        /\ IF \E report \in current_reports(rs, Base) : good(report)
           THEN /\ pc' = "m_top" /\ tpc' = "none" /\ ticket' = ticket
           ELSE /\ pc' = "m_base" /\ tpc' = "fetch" /\ ticket' = 0
    /\ trace' = Append(trace, Op("lookup", TRUE))
    /\ UNCHANGED <<call, out, skip_base, tickets, count, ans, i, conf, now, res, ret,
                   state, plugins_results, attempt, elapsed>>

\* Lines 453-459.
Prompt ==
    /\ pc = "m_prompt"
    /\ \E a \in Answers :
        /\ ans' = lower(a)
        /\ pc' = AfterAnswer(lower(a))
    /\ UNCHANGED <<call, out, skip_base, tickets, count, clean, runVars, i, conf, now, res,
                   tpc, ret, trace>>

\* Lines 463-466.
Pop ==
    IF tickets # <<>>
    THEN ticket' = Head(tickets) /\ tickets' = Tail(tickets)
    ELSE ticket' = NoTicket /\ tickets' = tickets

\* Lines 461-467: a cycle starts; the head of the queue is popped and the
\* configuration is reloaded.
LoopIter ==
    /\ pc = "m_top" /\ i < count
    /\ Pop
    /\ conf' \in Confs
    /\ now' \in Clock
    /\ pc' = "m_cycle"
    /\ trace' = <<>>
    /\ ret' = NoRun
    /\ UNCHANGED <<call, out, skip_base, count, clean, ans, i, res, tpc,
                   state, plugins_results, attempt, elapsed>>

\* Lines 467, 397-398, 473-475: get_conf fails fetching the trusted authors.
LoopConfError ==
    /\ pc = "m_top" /\ i < count
    /\ Pop
    /\ trace' = <<Op("trusted", FALSE), Op("sleep", TRUE)>>
    /\ ret' = NoRun
    /\ pc' = "m_next"
    /\ UNCHANGED <<call, out, skip_base, count, clean, ans, i, conf, now, res, tpc,
                   state, plugins_results, attempt, elapsed>>

\* Lines 468-469.
LoopRun ==
    /\ pc = "m_cycle"
    /\ RunsTicket(check_time_of_day(conf.time_of_day, now))
    /\ pc' = "m_run"
    /\ tpc' = "fetch"
    /\ UNCHANGED <<mainVars, runVars, i, conf, now, res, ret, trace>>

\* Lines 470-472.
LoopIdle ==
    /\ pc = "m_cycle"
    /\ ~RunsTicket(check_time_of_day(conf.time_of_day, now))
    /\ trace' = Append(trace, Op("sleep", TRUE))
    /\ pc' = "m_next"
    /\ UNCHANGED <<mainVars, runVars, i, conf, now, res, tpc, ret>>

\* Line 461: the body of the loop is over; on to the next value of range(count).
LoopNext ==
    /\ pc = "m_next"
    /\ i' = i + 1
    /\ pc' = "m_top"
    /\ ticket' = NoTicket
    /\ now' = 0
    /\ ret' = NoRun
    /\ trace' = <<>>
    /\ UNCHANGED <<mainVars, conf, res, tpc, state, plugins_results, attempt, elapsed>>

\* Line 461: range(count) is exhausted.
LoopDone ==
    /\ pc = "m_top" /\ i = count
    /\ pc' = "m_done"
    /\ UNCHANGED <<mainVars, runVars, i, conf, now, res, tpc, ret, trace>>

----------------------------------------------------------------------------
(* test_a_ticket *)

Durations == 0..MaxStageTicks

\* time.time() - start_time, observed up to one tick past the timeout.
Later(d) == Min(elapsed + d, conf.timeout + 1)

\* Lines 223-224, 227-233: no ticket argument; the tracker is queried and a
\* candidate is chosen.
FetchQuery ==
    /\ tpc = "fetch" /\ ticket = NoTicket
    /\ \E resp \in TrackerResponses :
        /\ ~get_ticket(resp, conf, FALSE).none
        /\ ticket' = get_ticket(resp, conf, FALSE).val.ticket.id
        /\ trace' = Append(trace, Query(resp))
    /\ tpc' = "pending"
    /\ UNCHANGED <<mainVars, pc, i, conf, now, res, ret,
                   state, plugins_results, attempt, elapsed>>

\* Lines 223-224, 227-232: no candidate; "No more tickets.", a cleanup once
\* in a while, the idle sleep, and test_a_ticket returns None.
NoMoreTickets ==
    /\ tpc = "fetch" /\ ticket = NoTicket
    /\ \E resp \in TrackerResponses, cleanup \in {"no", "ok", "HTTPError"} :
        /\ get_ticket(resp, conf, FALSE).none
        /\ LET tr == Append(trace, Query(resp))
           IN  CASE cleanup = "no" ->
                      Return(NoStatus, Append(tr, Op("sleep", TRUE)))
                 [] cleanup = "ok" ->
                      Return(NoStatus, tr \o <<Op("cleanup", TRUE), Op("sleep", TRUE)>>)
                 [] cleanup = "HTTPError" ->
                      Raise(HTTPError, Append(tr, Op("cleanup", FALSE)))
    /\ UNCHANGED <<mainVars, i, conf, now>>

\* Lines 225-226, 233-242: the ticket given by the caller is scraped.
FetchScrape ==
    /\ tpc = "fetch" /\ ticket # NoTicket
    /\ trace' = Append(trace, Op("scrape", TRUE))
    /\ tpc' = "pending"
    /\ UNCHANGED <<mainVars, runVars, pc, i, conf, now, res, ret>>

\* Line 226: scrape raises.
FetchScrapeFails ==
    /\ tpc = "fetch" /\ ticket # NoTicket
    /\ Raise(HTTPError, Append(trace, Op("scrape", FALSE)))
    /\ UNCHANGED <<mainVars, i, conf, now>>

\* Lines 243-244: the Pending report, outside any try.
Pending ==
    /\ tpc = "pending"
    /\ trace' = Append(trace, report_ticket("Pending", <<>>, TRUE))
    /\ plugins_results' = <<>>
    /\ tpc' = "apply"
    /\ UNCHANGED <<mainVars, pc, i, conf, now, res, ret, ticket, state, attempt, elapsed>>

PendingFails ==
    /\ tpc = "pending"
    /\ Raise(post_multipart_error, Append(trace, report_ticket("Pending", <<>>, FALSE)))
    /\ UNCHANGED <<mainVars, i, conf, now>>

\* Lines 246-256: the capture session opens, state = 'started', apply.
Apply ==
    /\ tpc = "apply"
    /\ \E ok \in BOOLEAN, d \in Durations :
        /\ trace' = Append(trace, Op("apply", ok))
        /\ state' = IF ok THEN "applied" ELSE "started"
        /\ tpc' = AfterStage(ok, "build")
        /\ elapsed' = Later(d)
    /\ UNCHANGED <<mainVars, pc, i, conf, now, res, ret, ticket, plugins_results, attempt>>

\* Lines 258-260.
Build ==
    /\ tpc = "build"
    /\ \E ok \in BOOLEAN, d \in Durations :
        /\ trace' = Append(trace, Op("build", ok))
        /\ state' = IF ok THEN "built" ELSE state
        /\ tpc' = AfterStage(ok, "plugins")
        /\ elapsed' = Later(d)
    /\ UNCHANGED <<mainVars, pc, i, conf, now, res, ret, ticket, plugins_results, attempt>>

\* Lines 270-281: one iteration of the loop over conf['plugins'].
RunPlugin ==
    /\ tpc = "plugins"
    /\ Len(plugins_results) < Len(conf.plugins)
    /\ \E raised \in BOOLEAN, d \in Durations :
        LET name == conf.plugins[Len(plugins_results) + 1]
            passed == plugin_passed(raised)
        IN  /\ trace' = Append(trace, Ev("plugin", name, FALSE, <<>>, ~raised))
            /\ plugins_results' = Append(plugins_results, <<name, passed>>)
            /\ tpc' = AfterPlugin(raised)
            /\ elapsed' = Later(d)
    /\ UNCHANGED <<mainVars, pc, i, conf, now, res, ret, ticket, state, attempt>>

\* Lines 283-298: the loop over the plugins is over; the test suite runs.
Tests ==
    /\ tpc = "plugins"
    /\ Len(plugins_results) >= Len(conf.plugins)
    /\ \E ok \in BOOLEAN, d \in Durations :
        /\ trace' = Append(trace, Op("tests", ok))
        /\ state' = IF ok THEN final_state(plugins_results) ELSE state
        /\ elapsed' = Later(d)
    /\ tpc' = "tee_exit"
    /\ UNCHANGED <<mainVars, pc, i, conf, now, res, ret, ticket, plugins_results, attempt>>

\* Lines 161-180, 299-300: Tee.__exit__ arms the alarm around tee.wait()
\* only; when it fires, alarm_handler raises NameError (Alarm is not
\* defined), which line 299 catches like a stage's exception.
TeeExit ==
    /\ tpc = "tee_exit"
    /\ \E fired \in BOOLEAN :
        trace' = Append(trace, Op("tee_wait", ~fired))
    /\ tpc' = "report"
    /\ UNCHANGED <<mainVars, runVars, pc, i, conf, now, res, ret>>

\* Lines 302-307, 313: an attempt to post the final report succeeds.
Report ==
    /\ tpc = "report"
    /\ attempt < ReportAttempts
    /\ Return(status[state],
              Append(trace, report_ticket(status[state], plugins_results, TRUE)))
    /\ UNCHANGED <<mainVars, i, conf, now>>

\* Lines 302-305, 308-313: an attempt fails; the error is caught, sleep, and
\* either try again or, after the last attempt, "Error reporting" and return.
ReportFails ==
    /\ tpc = "report"
    /\ attempt < ReportAttempts
    /\ LET failed == report_ticket(status[state], plugins_results, FALSE)
           tr == trace \o <<failed, Op("sleep", TRUE)>>
       IN  IF ~Retried(post_multipart_error)
           THEN Raise(post_multipart_error, Append(trace, failed))
           ELSE IF attempt + 1 < ReportAttempts
           THEN /\ trace' = tr
                /\ attempt' = attempt + 1
                /\ UNCHANGED <<pc, res, ret, tpc, ticket, state, plugins_results, elapsed>>
           ELSE Return(status[state], tr)
    /\ UNCHANGED <<mainVars, i, conf, now>>

----------------------------------------------------------------------------

Next ==
    \/ SkipBaseline
    \/ LookupFails
    \/ Lookup
    \/ Prompt
    \/ LoopIter
    \/ LoopConfError
    \/ LoopRun
    \/ LoopIdle
    \/ LoopNext
    \/ LoopDone
    \/ FetchQuery
    \/ NoMoreTickets
    \/ FetchScrape
    \/ FetchScrapeFails
    \/ Pending
    \/ PendingFails
    \/ Apply
    \/ Build
    \/ RunPlugin
    \/ Tests
    \/ TeeExit
    \/ Report
    \/ ReportFails

Spec == Init /\ [][Next]_vars

----------------------------------------------------------------------------
(* The rating, selection, machine comparison and time-of-day functions,
   applied to arguments drawn from the sets below *)

\* Signatures of reporting machines: besides those above, one that differs
\* from this host in distribution and version only, one of the four-element
\* form of line 340 that agrees with this host on its first three elements,
\* and one in the old dict form.
ArchTwin  == <<"Debian", "6.0", "x86_64", "2.6.32", "hostD">>
ShortTwin == <<"Ubuntu", "10.04", "x86_64", "hostE">>
Signatures == Machines \cup {ArchTwin, ShortTwin, DictMachine}

Depths == {NoDepth} \cup 1..MaxDepth

PriorReports ==
    {[machine |-> m, status |-> "TestsPassed", base |-> Base] : m \in Signatures}
    \cup {[machine |-> ThisMachine, status |-> "TestsPassed", base |-> "4.8"]}

PriorReportSets == {rs \in SUBSET PriorReports : Cardinality(rs) <= MaxReports}

RatedTickets ==
    {Ticket(id, spkgs, patches, deps, authors, participants, component,
            sp[1], sp[2], retry, reports) :
        id \in TicketIds,
        spkgs \in {<<>>, <<"pkg.spkg">>},
        patches \in {<<>>, <<"trac.patch">>},
        deps \in {<<>>, <<DepTicket(99), DepVersion("5.1")>>, <<DepVersion("4.8")>>},
        authors \in {<<"alice">>, <<"bob", "alice">>, <<"alice", "mallory">>},
        participants \in {<<>>, <<"alice", "bob", "alice">>, <<"mallory", "bob">>},
        component \in {Absent, "algebra"},
        sp \in {<<"needs_review", "major">>, <<"positive_review", "blocker">>},
        retry \in BOOLEAN,
        reports \in PriorReportSets}

BaseConf ==
    [time_of_day |-> << <<0, 0>> >>, plugins |-> <<>>, timeout |-> TimeoutTicks,
     machine |-> ThisMachine, machine_match |-> machine_match, base |-> Base,
     trusted_authors |-> TrustedAuthors, bonus |-> default_bonus]

RateConfs ==
    {[BaseConf EXCEPT !.bonus = b, !.machine_match = mm] :
        b \in Bonuses, mm \in {machine_match, NoDepth}}

\* Tickets the tracker lists: ready ones of two ratings, ones with a prior
\* report, one with an untrusted participant, one with an untrusted author
\* and one waiting for a system package.
TrackerTickets ==
    {PlainTicket(id) : id \in TicketIds \cup {300}}
    \cup {[PlainTicket(id) EXCEPT !.status = "positive_review", !.priority = "blocker"] :
            id \in TicketIds \cup {300}}
    \cup {[PlainTicket(id) EXCEPT !.reports = {r}] :
            id \in TicketIds \cup {300},
            r \in {x \in PriorReports : x.machine \in {OtherMachine, DictMachine}}}
    \cup {[PlainTicket(id) EXCEPT !.participants = <<"mallory">>] : id \in TicketIds}
    \cup {[PlainTicket(id) EXCEPT !.authors = <<"mallory">>] : id \in TicketIds}
    \cup {SpkgTicket(id) : id \in TicketIds}

TrackerLists ==
    {q \in UNION {[1..n -> TrackerTickets] : n \in 0..MaxListed} :
        \A a, b \in 1..Len(q) : a # b => q[a].id # q[b].id}

\* time_of_day strings of one or two intervals, and times of the day in minutes.
Intervals == {<<22, 2>>, <<9>>, <<13, 17>>, <<0, 0>>}
DayWindows == UNION {[1..n -> Intervals] : n \in 1..2}
Times == {0, 60, 90, 120, 121, 9 * 60, 9 * 60 + 30, 10 * 60, 10 * 60 + 1, 12 * 60,
          13 * 60, 17 * 60, 17 * 60 + 30, 21 * 60 + 59, 22 * 60, 23 * 60, 23 * 60 + 59}

progVars == <<skip_base, tickets, count, pc, i, conf, now, clean, res, ans,
              tpc, ticket, state, plugins_results, attempt, elapsed, ret, trace>>

InitCalls ==
    /\ skip_base = TRUE
    /\ tickets = <<>>
    /\ count = 0
    /\ conf = BaseConf
    /\ pc = "call"
    /\ i = 0
    /\ now = 0
    /\ clean = {}
    /\ res = NoStatus
    /\ ans = <<>>
    /\ tpc = "none"
    /\ ticket = NoTicket
    /\ state = Unset
    /\ plugins_results = <<>>
    /\ attempt = 0
    /\ elapsed = 0
    /\ ret = NoRun
    /\ trace = <<>>
    /\ call = NoCall
    /\ out = <<>>

\* Lines 87-118.
CallRateTicket ==
    /\ pc = "call" /\ call = NoCall
    /\ \E t \in RatedTickets, cf \in RateConfs :
        /\ call' = [fn |-> "rate_ticket", args |-> <<t, cf>>]
        /\ out' = rate_ticket(t, cf)
    /\ UNCHANGED progVars

\* Lines 46-64, with return_all as in the loop (line 224) and as under
\* --list (line 435).
CallGetTicket ==
    /\ pc = "call" /\ call = NoCall
    /\ \E all \in TrackerLists, cf \in RateConfs, return_all \in BOOLEAN :
        /\ call' = [fn |-> "get_ticket", args |-> <<all, cf, return_all>>]
        /\ out' = get_ticket([ok |-> TRUE, all |-> all], cf, return_all)
    /\ UNCHANGED progVars

\* Lines 74-85.
CallCompareMachines ==
    /\ pc = "call" /\ call = NoCall
    /\ \E a \in Signatures, b \in Signatures, mm \in Depths :
        /\ call' = [fn |-> "compare_machines", args |-> <<a, b, mm>>]
        /\ out' = compare_machines(a, b, mm)
    /\ UNCHANGED progVars

\* Lines 352-362.
CallCheckTimeOfDay ==
    /\ pc = "call" /\ call = NoCall
    /\ \E hours \in DayWindows, t \in Times :
        /\ call' = [fn |-> "check_time_of_day", args |-> <<hours, t>>]
        /\ out' = check_time_of_day(hours, t)
    /\ UNCHANGED progVars

NextCalls ==
    \/ CallRateTicket
    \/ CallGetTicket
    \/ CallCompareMachines
    \/ CallCheckTimeOfDay

Calls == InitCalls /\ [][NextCalls]_vars

TypeOK ==
    /\ pc \in {"m_lookup", "m_base", "m_prompt", "m_top", "m_cycle", "m_run",
               "m_next", "m_done", "m_exit", "m_crash"}
    /\ tpc \in {"none", "fetch", "pending", "apply", "build", "plugins",
                "tee_exit", "report"}
    /\ i \in 0..count
    /\ attempt \in 0..ReportAttempts
    /\ state \in {Unset} \cup DOMAIN status

----------------------------------------------------------------------------
(* Observations on the operations of the current run *)

Statuses == {status[s] : s \in DOMAIN status}

\* test_a_ticket has returned a status and the next cycle has not started.
Finished == ret \in Statuses

\* The pipeline of the current run is over: report phase or returned.
PipelineOver == tpc = "report" \/ Finished

Events(op) == {k \in 1..Len(trace) : trace[k].op = op}

Did(op) == Events(op) # {}

Succeeded(op) == \E k \in Events(op) : trace[k].ok

Failed(op) == \E k \in Events(op) : ~trace[k].ok

IsFinalPost(e) == e.op = "post" /\ e.status # "Pending"

IsPendingPost(e) == e.op = "post" /\ e.status = "Pending"

IsPlugin(e) == e.op = "plugin"

FinalPosts == SelectSeq(trace, IsFinalPost)

PendingPosts == SelectSeq(trace, IsPendingPost)

PluginRuns == SelectSeq(trace, IsPlugin)

\* Every operation `later` of the run comes after a successful `earlier`.
OnlyAfter(later, earlier) ==
    \A k \in Events(later) : \E j \in Events(earlier) : j < k /\ trace[j].ok

----------------------------------------------------------------------------
(* C1: a failing apply ends the run as ApplyFailed with no build, plugin or
   test-suite operation; a failing build ends it as BuildFailed with no
   plugin or test-suite operation; the stages are entered in the order
   apply, build, plugins, tests, each only after the previous one went
   through. *)
C1_StageFailureHalts ==
    /\ Failed("apply") =>
          /\ ~Did("build") /\ ~Did("plugin") /\ ~Did("tests")
          /\ \A k \in 1..Len(FinalPosts) : FinalPosts[k].status = "ApplyFailed"
          /\ Finished => ret = "ApplyFailed"
    /\ Failed("build") =>
          /\ Succeeded("apply")
          /\ ~Did("plugin") /\ ~Did("tests")
          /\ \A k \in 1..Len(FinalPosts) : FinalPosts[k].status = "BuildFailed"
          /\ Finished => ret = "BuildFailed"
    /\ Cardinality(Events("apply")) <= 1
    /\ Cardinality(Events("build")) <= 1
    /\ Cardinality(Events("tests")) <= 1
    /\ OnlyAfter("build", "apply")
    /\ OnlyAfter("plugin", "build")
    /\ OnlyAfter("tests", "build")
    /\ \A k \in Events("tests") : \A j \in Events("plugin") : j < k

C1_Witness ==
    /\ Finished /\ ret = "BuildFailed"
    /\ Succeeded("apply") /\ Failed("build")
    /\ Len(FinalPosts) >= 1

----------------------------------------------------------------------------
(* C2: the final status is TestsPassed exactly when apply, build and tests
   succeeded and every configured plugin passed; PluginFailed exactly when
   apply, build and tests succeeded and some plugin failed; TestsFailed when
   the test suite failed, whatever the plugins did; a plugin failure never
   replaces ApplyFailed, BuildFailed or TestsFailed. *)
AllPluginsPassed ==
    /\ Len(PluginRuns) = Len(conf.plugins)
    /\ \A k \in 1..Len(PluginRuns) : PluginRuns[k].ok

SomePluginFailed == \E k \in 1..Len(PluginRuns) : ~PluginRuns[k].ok

StagesSucceeded == Succeeded("apply") /\ Succeeded("build") /\ Succeeded("tests")

C2_FinalStatus ==
    Finished =>
        /\ ret = "TestsPassed"  <=> (StagesSucceeded /\ AllPluginsPassed)
        /\ ret = "PluginFailed" <=> (StagesSucceeded /\ SomePluginFailed)
        /\ Failed("tests") => ret = "TestsFailed"
        /\ Failed("build") => ret = "BuildFailed"
        /\ Failed("apply") => ret = "ApplyFailed"
        /\ \A k \in 1..Len(FinalPosts) : FinalPosts[k].status = ret

C2_Witness ==
    /\ Finished /\ ret = "PluginFailed"
    /\ StagesSucceeded /\ SomePluginFailed

(* C3: once the build succeeded every configured plugin is run exactly once,
   in configured order, before the test suite; a plugin that raises is
   recorded as failed; neither keeps the other plugins or the test suite
   from running; the final report lists one (name, passed) pair per
   configured plugin, in order. *)
C3_PluginsAllRun ==
    /\ Len(PluginRuns) <= Len(conf.plugins)
    /\ \A k \in 1..Len(PluginRuns) : PluginRuns[k].status = conf.plugins[k]
    /\ \A k \in Events("tests") : \A j \in Events("plugin") : j < k
    /\ (Did("tests") \/ PipelineOver) /\ Succeeded("build") =>
          /\ Len(PluginRuns) = Len(conf.plugins)
          /\ Did("tests")
    /\ Succeeded("build") =>
          \A k \in 1..Len(FinalPosts) :
              /\ Len(FinalPosts[k].plugins) = Len(conf.plugins)
              /\ \A n \in 1..Len(conf.plugins) :
                    FinalPosts[k].plugins[n] = <<conf.plugins[n], PluginRuns[n].ok>>

C3_Witness ==
    /\ Finished /\ Succeeded("build")
    /\ Len(conf.plugins) = 2
    /\ ~PluginRuns[1].ok /\ PluginRuns[2].ok
    /\ Len(FinalPosts) >= 1

(* C4: when every attempt to post the final report fails, exactly 5 attempts
   are made and test_a_ticket returns its status without raising; no attempt
   follows a successful one; the attempts number between 1 and 5. *)
C4_ReportRetries ==
    /\ Len(FinalPosts) <= 5
    /\ \A k \in 1..Len(FinalPosts) : FinalPosts[k].ok => k = Len(FinalPosts)
    /\ Finished =>
          /\ Len(FinalPosts) >= 1
          /\ ~FinalPosts[Len(FinalPosts)].ok => Len(FinalPosts) = 5
    /\ (tpc = "report" /\ Len(FinalPosts) >= 1) => ~FinalPosts[Len(FinalPosts)].ok
    /\ Len(FinalPosts) >= 1 => pc # "m_crash" /\ ret # HTTPError

C4_Witness ==
    /\ Finished
    /\ Len(FinalPosts) = 5
    /\ \A k \in 1..5 : ~FinalPosts[k].ok

(* C5: a run whose apply+build+plugins+tests sequence outlasts
   conf['timeout'] is aborted and reports the failure status of the last
   completed stage, never a success. *)
C5_TimeoutForcesFailure ==
    (tpc = "report" /\ elapsed > conf.timeout) =>
        status[state] \in {"ApplyFailed", "BuildFailed", "TestsFailed"}

(* C6: in the main loop a failed post, of the Pending report or of the final
   report, never ends the process: the attempt is repeated or the cycle ends,
   and the loop goes on to its next cycle while cycles remain. *)
PostFailsInStep ==
    /\ Len(trace') > Len(trace)
    /\ trace'[Len(trace) + 1].op = "post"
    /\ ~trace'[Len(trace) + 1].ok

C6_ReportFailureKeepsLoop ==
    [][ /\ (pc = "m_run" /\ PostFailsInStep) =>
              \/ pc' = "m_run" /\ tpc' = "report"
              \/ pc' = "m_next" /\ tpc' = "none"
        /\ pc = "m_next" => pc' = "m_top" /\ i' = i + 1
        /\ (pc = "m_top" /\ i < count) => pc' \in {"m_cycle", "m_next"}
      ]_vars

C6_Witness ==
    /\ pc = "m_next"
    /\ ret = HTTPError
    /\ Len(PendingPosts) = 1 /\ ~PendingPosts[1].ok
    /\ i + 1 < count

(* C7: the process stops before its cycles are done only when the baseline
   run of ticket 0 did not return TestsPassed and the operator declined to
   continue. *)
C7_OnlyDeclinedBaselineHalts ==
    pc \in {"m_exit", "m_crash"} =>
        /\ pc = "m_exit"
        /\ res \in Statuses \ {"TestsPassed"}
        /\ (ans = <<>> \/ ans[1] = "n")

(* C8: unless --skip-base is given, no cycle starts before the baseline is
   resolved: a current report on ticket 0 from a machine with this machine's
   whole signature says TestsPassed (and then the baseline is not run), or
   the baseline run returned TestsPassed, or it returned something else and
   the operator answered yes; no or an empty answer exits, any other answer
   repeats the prompt. *)
InLoop == pc \in {"m_top", "m_cycle", "m_run", "m_next", "m_done"}

PassedOn(reports, machines) ==
    \E r \in reports : r.base = Base /\ r.machine \in machines /\ r.status = "TestsPassed"

BaselineResolved(machines) ==
    /\ (InLoop /\ ~skip_base) =>
          \/ PassedOn(clean, machines) /\ res = NoStatus
          \/ res = "TestsPassed"
          \/ res \in Statuses \ {"TestsPassed"} /\ ans # <<>> /\ ans[1] = "y"
    /\ (pc # "m_lookup" /\ ~skip_base /\ PassedOn(clean, machines)) =>
          res = NoStatus /\ pc # "m_base"

PromptAnswers ==
    pc = "m_prompt" =>
        /\ (ans' = <<>> \/ ans'[1] = "n") => pc' = "m_exit"
        /\ (ans' # <<>> /\ ans'[1] = "y") => pc' = "m_top"
        /\ (ans' # <<>> /\ ans'[1] \notin {"n", "y"}) => pc' = "m_prompt"

C8_BaselineGate == [](BaselineResolved({ThisMachine})) /\ [][PromptAnswers]_vars

C8_Witness ==
    /\ InLoop /\ ~skip_base
    /\ res = "TestsFailed"
    /\ ans = <<"y">>
    /\ PassedOn(clean, {TwinMachine})

\* The machines equivalent to this one under the prefix match.
EquivalentMachines ==
    {m \in Machines :
        \A k \in DOMAIN compare_machines(m, ThisMachine, machine_match) :
            ~compare_machines(m, ThisMachine, machine_match)[k]}

\* C8 as first stated, a report from an equivalent machine resolving the baseline.
C8_Original == BaselineResolved(EquivalentMachines)

(* C9: a run with a chosen ticket posts exactly one Pending report, without
   log, before apply starts, and never repeats it; every other report
   carries the log. *)
C9_PendingOnce ==
    /\ \A k \in Events("post") : trace[k].log <=> trace[k].status # "Pending"
    /\ Len(PendingPosts) <= 1
    /\ \A k \in Events("post") :
          trace[k].status = "Pending" =>
              \A j \in 1..Len(trace) :
                  trace[j].op \in {"apply", "build", "plugin", "tests"} => k < j
    /\ (tpc \in {"apply", "build", "plugins", "tee_exit", "report"} \/ Finished) =>
          Len(PendingPosts) = 1 /\ PendingPosts[1].ok
    /\ Did("apply") => Len(PendingPosts) = 1

C9_Witness ==
    /\ Finished
    /\ Len(PendingPosts) = 1
    /\ Len(FinalPosts) >= 2
    /\ \A k \in 1..Len(FinalPosts) : FinalPosts[k].log

(* C10: a cycle that finds the clock outside the time-of-day window sleeps
   the idle interval and does nothing else: no tracker query, no scrape, no
   report, no stage or plugin. *)
C10_IdleCycle ==
    [][ (pc = "m_cycle" /\ ~check_time_of_day(conf.time_of_day, now)) =>
            /\ trace = <<>>
            /\ trace' = <<Op("sleep", TRUE)>>
            /\ pc' = "m_next"
            /\ tpc' = "none"
            /\ ret' = NoRun
      ]_vars

C10_Witness ==
    /\ pc = "m_next"
    /\ ret = NoRun
    /\ now # 0
    /\ ~check_time_of_day(conf.time_of_day, now)
    /\ trace = <<Op("sleep", TRUE)>>

(* C11: in a cycle without an explicit ticket, when the tracker query fails
   or none of the tickets it lists survives the rating, nothing is reported
   and no stage or plugin runs; the idle interval is slept once and the loop
   goes on to its next cycle. *)
NoSurvivor(q) ==
    ~q.ok \/ \A k \in DOMAIN q.all : rate_ticket(q.all[k], conf).skip

C11_NoCandidate ==
    \A q \in Events("query") :
        NoSurvivor(trace[q]) =>
            /\ pc = "m_next" /\ tpc = "none"
            /\ \A k \in 1..Len(trace) :
                  trace[k].op \notin {"post", "scrape", "apply", "build", "plugin",
                                      "tests", "tee_wait"}
            /\ Cardinality(Events("sleep")) = 1
            /\ trace[Len(trace)].op = "sleep"
            /\ ret = NoStatus \/ (ret = HTTPError /\ Failed("cleanup"))

C11_Witness ==
    /\ pc = "m_next"
    /\ ret = NoStatus
    /\ \E q \in Events("query") :
          trace[q].ok /\ trace[q].all # <<>> /\ NoSurvivor(trace[q])
    /\ Did("sleep")

----------------------------------------------------------------------------
(* Observations on a function applied *)

Applied(fn) == call.fn = fn

\* The tickets in what get_ticket returned: the one selected, or those listed.
Returned ==
    IF out.none THEN {}
    ELSE IF call.args[3] THEN {out.val[k] : k \in DOMAIN out.val}
    ELSE {out.val}

NewerDependency(t, cf) ==
    \E d \in Range(t.depends_on) :
        d.dotted /\ LexLess(VersionOf[cf.base], VersionOf[d.name])

UntrustedAuthor(t, cf) == ~(Range(t.authors) \subseteq cf.trusted_authors)

Barred(t, cf) ==
    \/ Len(t.spkgs) > 0
    \/ Len(t.patches) = 0
    \/ NewerDependency(t, cf)
    \/ UntrustedAuthor(t, cf)

(* C12: rate_ticket returns None for a ticket with a system package, with no
   patch, with a dotted dependency newer than the base, or with an author
   outside the trusted set, whatever the bonuses; get_ticket neither selects
   nor lists such a ticket. *)
C12_SkipConditions ==
    /\ Applied("rate_ticket") =>
          (Barred(call.args[1], call.args[2]) => out = Skip)
    /\ Applied("get_ticket") =>
          \A x \in Returned : ~Barred(x.ticket, call.args[2])

C12_Witness ==
    /\ Applied("rate_ticket")
    /\ out = Skip
    /\ NewerDependency(call.args[1], call.args[2])
    /\ call.args[1].spkgs = <<>>
    /\ call.args[1].patches # <<>>
    /\ ~UntrustedAuthor(call.args[1], call.args[2])
    /\ call.args[2].bonus = FileBonus @@ default_bonus

(* C13: every ticket that get_ticket selects or lists, and every ticket
   rate_ticket gives a score, has all its authors in the trusted set; its
   participants are not looked at. *)
C13_TrustedAuthors ==
    /\ Applied("get_ticket") =>
          \A x \in Returned :
              \A k \in DOMAIN x.ticket.authors :
                  x.ticket.authors[k] \in call.args[2].trusted_authors
    /\ (Applied("rate_ticket") /\ ~out.skip) =>
          \A k \in DOMAIN call.args[1].authors :
              call.args[1].authors[k] \in call.args[2].trusted_authors

C13_Witness ==
    /\ Applied("get_ticket")
    /\ ~call.args[3]
    /\ ~out.none
    /\ \E k \in DOMAIN out.val.ticket.participants :
          out.val.ticket.participants[k] \notin call.args[2].trusted_authors

\* C13 as first stated: the participants of a selected or listed ticket are
\* trusted as well.
C13_Original ==
    Applied("get_ticket") =>
        \A x \in Returned :
            /\ Range(x.ticket.authors) \subseteq call.args[2].trusted_authors
            /\ Range(x.ticket.participants) \subseteq call.args[2].trusted_authors

\* The machine of a report is fully redundant with this one: signatures of
\* the same length that agree in every position of the compared prefix.
FullyRedundant(m, cf) ==
    /\ Len(m) = Len(cf.machine)
    /\ \A k \in 1..Len(m) :
          (cf.machine_match = NoDepth \/ k <= cf.machine_match) => m[k] = cf.machine[k]

\* The machine of a report differs from this one somewhere in the compared
\* prefix.
DiffersInPrefix(m, cf) ==
    \E k \in 1..Min(Len(m), Len(cf.machine)) :
        /\ cf.machine_match = NoDepth \/ k <= cf.machine_match
        /\ m[k] # cf.machine[k]

(* C14: a ticket that is not barred is skipped for redundancy exactly when it
   is not flagged retry and a prior report at the same base comes from a
   fully redundant machine; a ticket whose prior reports all come from
   machines that differ from this one in the compared prefix is not skipped;
   a ticket flagged retry is never skipped and gets the sentinel vector. *)
C14_RedundancySkip ==
    (Applied("rate_ticket") /\ ~Barred(call.args[1], call.args[2])) =>
        /\ out.skip <=>
              /\ ~call.args[1].retry
              /\ \E r \in call.args[1].reports :
                    /\ r.base = call.args[2].base
                    /\ FullyRedundant(r.machine, call.args[2])
        /\ (\A r \in call.args[1].reports :
                ~isinstance_dict(r.machine) /\ DiffersInPrefix(r.machine, call.args[2]))
              => ~out.skip
        /\ call.args[1].retry => ~out.skip /\ out.redundancy = Sentinel

\* The number of elements of a signature that are compared at depth mm.
PrefixLen(m, mm) == IF mm = NoDepth \/ mm > Len(m) THEN Len(m) ELSE mm

(* C15: for two signatures in list form whose compared prefixes differ in
   length, compare_machines returns a vector whose last element is true,
   and a ticket whose prior reports at the base all come from such machines
   is not skipped for redundancy; when the prefixes have the same length,
   the vector has one element per prefix position and no length flag. *)
C15_PrefixLengthMismatch ==
    /\ (Applied("compare_machines")
            /\ ~isinstance_dict(call.args[1]) /\ ~isinstance_dict(call.args[2])) =>
          LET la == PrefixLen(call.args[1], call.args[3])
              lb == PrefixLen(call.args[2], call.args[3])
          IN  /\ la # lb => Len(out) = Min(la, lb) + 1 /\ out[Len(out)]
              /\ la = lb => Len(out) = la
              /\ \A k \in 1..Min(la, lb) : out[k] <=> call.args[1][k] # call.args[2][k]
    /\ (Applied("rate_ticket") /\ ~Barred(call.args[1], call.args[2])) =>
          ((\A r \in call.args[1].reports :
                /\ ~isinstance_dict(r.machine)
                /\ PrefixLen(r.machine, call.args[2].machine_match)
                      # PrefixLen(call.args[2].machine, call.args[2].machine_match))
              => ~out.skip)

C15_Witness ==
    /\ Applied("compare_machines")
    /\ call.args[1] = ShortTwin /\ call.args[2] = ThisMachine
    /\ call.args[3] = MaxDepth
    /\ out = <<FALSE, FALSE, FALSE, TRUE, TRUE>>

\* C15 as first stated: signatures of different lengths give a vector whose
\* last element is true, at every depth.
C15_Original ==
    (Applied("compare_machines")
        /\ ~isinstance_dict(call.args[1]) /\ ~isinstance_dict(call.args[2])
        /\ Len(call.args[1]) # Len(call.args[2])) =>
        out[Len(out)]

\* The tickets of the tracker's list that rate_ticket gives a score.
Survivors == {t \in Range(call.args[1]) : ~rate_ticket(t, call.args[2]).skip}

\* Pair x is preferred to pair y: larger redundancy value, then higher
\* rating, then lower ticket id.
Preferred(x, y) ==
    \/ PyLess(y.score.redundancy, x.score.redundancy)
    \/ /\ y.score.redundancy = x.score.redundancy
       /\ \/ x.score.rating > y.score.rating
          \/ x.score.rating = y.score.rating /\ x.ticket.id < y.ticket.id

(* C16: get_ticket returns the scored ticket that is preferred to every other
   scored one (larger redundancy value, then higher rating, then lower id),
   or nothing when none is scored; with return_all it returns all the scored
   tickets, each once, the preferred ones later; a ticket rated None is never
   in what it returns. *)
C16_Selection ==
    Applied("get_ticket") =>
        /\ \A x \in Returned :
              /\ x.ticket \in Survivors
              /\ x.score = rate_ticket(x.ticket, call.args[2])
        /\ ~call.args[3] =>
              /\ out.none <=> Survivors = {}
              /\ \A x \in Returned : \A t \in Survivors \ {x.ticket} :
                    Preferred(x, [score |-> rate_ticket(t, call.args[2]), ticket |-> t])
        /\ call.args[3] =>
              /\ ~out.none
              /\ Len(out.val) = Cardinality(Survivors)
              /\ {x.ticket : x \in Returned} = Survivors
              /\ \A j, k \in DOMAIN out.val : j < k => Preferred(out.val[k], out.val[j])

C16_Witness ==
    /\ Applied("get_ticket")
    /\ ~call.args[3]
    /\ Cardinality(Survivors) >= 2
    /\ \E t \in Survivors :
          /\ t.id > out.val.ticket.id
          /\ rate_ticket(t, call.args[2]).redundancy = out.val.score.redundancy
          /\ rate_ticket(t, call.args[2]).rating = out.val.score.rating
    /\ call.args[1][1] = out.val.ticket

\* How many times name x occurs in list s.
Occurrences(s, x) == Cardinality({k \in DOMAIN s : s[k] = x})

RECURSIVE SumOver(_, _)
SumOver(S, f) ==
    IF S = {} THEN 0
    ELSE LET x == CHOOSE y \in S : TRUE
         IN  f[x] + SumOver(S \ {x}, f)

\* The rating of ticket t under bonus table b, name by name.
ExpectedRating(t, b) ==
    SumOver(Authors, [n \in Authors |->
                        get(b, n) * (Occurrences(t.authors, n)
                                     + Occurrences(t.participants, n))])
    + Len(t.participants)
    + get(b, t.component) + get(b, t.status) + get(b, t.priority) + get(b, str(t.id))

(* C17: the rating of a scored ticket is the sum of the bonuses of its
   authors, of the bonuses of its participants (each occurrence counted, an
   author who is also a participant counted twice), of the number of
   participants, and of the bonuses of its component, status, priority and
   id as a string, a missing key counting 0; the tie-break is minus the id,
   and a ticket without prior reports gets the sentinel (100,), which no
   other redundancy value exceeds. *)
C17_Rating ==
    (Applied("rate_ticket") /\ ~out.skip) =>
        /\ out.rating = ExpectedRating(call.args[1], call.args[2].bonus)
        /\ out.negid + call.args[1].id = 0
        /\ call.args[1].reports = {} => out.redundancy = PyTuple(<<100>>)
        /\ ~PyLess(PyTuple(<<100>>), out.redundancy)

C17_Witness ==
    /\ Applied("rate_ticket")
    /\ ~out.skip
    /\ call.args[1].id = 200
    /\ call.args[1].authors = <<"bob", "alice">>
    /\ call.args[1].participants = <<"alice", "bob", "alice">>
    /\ call.args[1].component = "algebra"
    /\ call.args[1].status = "needs_review"
    /\ call.args[1].reports = {}
    /\ call.args[2].bonus = FileBonus @@ default_bonus
    /\ out.rating = 20 + 40 + 3 + 3 + 1000 + 0 + 7

\* Time t (minutes of the day) lies in the interval written "a-b" or "a".
Covers(iv, t) ==
    CASE Len(iv) = 1 -> iv[1] * 60 <= t /\ t <= iv[1] * 60 + 60
      [] Len(iv) = 2 /\ iv[1] < iv[2] -> iv[1] * 60 <= t /\ t <= iv[2] * 60
      [] Len(iv) = 2 /\ iv[1] > iv[2] -> t >= iv[1] * 60 \/ t <= iv[2] * 60
      [] Len(iv) = 2 /\ iv[1] = 0 /\ iv[2] = 0 -> TRUE

(* C18: check_time_of_day is true exactly when the hour of the day lies in
   one of the intervals: "a-b" with a < b covers a <= hour <= b, with a > b
   it wraps past midnight; "22-2" holds at 23:00 and 1:00 and not at 12:00,
   and the default "0-0" holds at every time. *)
C18_TimeOfDay ==
    Applied("check_time_of_day") =>
        /\ out <=> \E k \in DOMAIN call.args[1] : Covers(call.args[1][k], call.args[2])
        /\ (call.args[1] = << <<22, 2>> >> /\ call.args[2] \in {23 * 60, 60}) => out
        /\ (call.args[1] = << <<22, 2>> >> /\ call.args[2] = 12 * 60) => ~out
        /\ call.args[1] = << <<0, 0>> >> => out

C18_Witness ==
    /\ Applied("check_time_of_day")
    /\ call.args[1] = << <<22, 2>> >>
    /\ call.args[2] = 60
    /\ out

\* The ticket of the current cycle was taken from the explicit queue.
FromQueue == ticket # NoTicket /\ ~Did("query")

(* C19: an id taken from the explicit queue is not lost: the cycle that took
   it ends with test_a_ticket having returned a status for it, or the id is
   still in the queue for a later cycle. *)
C19_QueuedIdNotLost ==
    [][ (pc \in {"m_cycle", "m_run"} /\ FromQueue /\ pc' = "m_next") =>
            ret' \in Statuses \/ ticket \in Range(tickets')
      ]_vars

\* Positions in the trace of the attempts to post the final report.
FinalAttempts == {k \in Events("post") : trace[k].status # "Pending"}

(* C20: in one run at most one final report is delivered and no attempt
   follows it; every attempt comes after the delivered Pending report and
   after the last stage, plugin and test operation; all attempts carry the
   same status and the same plugin results, those of the run, and the status
   test_a_ticket returns is the one they carry. *)
C20_OneFinalReport ==
    /\ Cardinality({k \in FinalAttempts : trace[k].ok}) <= 1
    /\ \A k \in FinalAttempts :
          /\ trace[k].ok => \A j \in (k + 1)..Len(trace) : trace[j].op # "post"
          /\ \E j \in 1..(k - 1) :
                trace[j].op = "post" /\ trace[j].status = "Pending" /\ trace[j].ok
          /\ \A j \in (k + 1)..Len(trace) : trace[j].op \in {"post", "sleep"}
          /\ trace[k].status \in Statuses
          /\ trace[k].plugins =
                [n \in 1..Len(PluginRuns) |-> <<PluginRuns[n].status, PluginRuns[n].ok>>]
          /\ \A j \in FinalAttempts :
                trace[j].status = trace[k].status /\ trace[j].plugins = trace[k].plugins
          /\ tpc = "report" =>
                trace[k].status = status[state] /\ trace[k].plugins = plugins_results
          /\ (tpc = "none" /\ pc # "m_crash") => ret = trace[k].status
    /\ Finished => FinalAttempts # {}

C20_Witness ==
    /\ Finished
    /\ ret = "PluginFailed"
    /\ Cardinality(FinalAttempts) = 3
    /\ \E k \in FinalAttempts : trace[k].ok /\ trace[k].plugins # <<>>
    /\ \E k \in FinalAttempts : ~trace[k].ok

====
